---- MODULE Spec2Model ----
(* Model of app.py: the two request handlers get_video_info and            *)
(* download_video, the URL validator, the format catalog construction and  *)
(* the temporary download directory.  Text is modelled as sequences of     *)
(* one-character strings so that strip(), the regular expression and the   *)
(* "<height>p" label round trip are computed, not assumed.                 *)
EXTENDS Integers, Sequences, FiniteSets, TLC

(* ------------------------------------------------------------------ *)
(* Bounds of the explored inputs                                       *)
(* ------------------------------------------------------------------ *)
MaxLadder == 11
MaxPrefix == 1
MaxSuffix == 1
MaxFiles == 2
MaxChunks == 2

(* ------------------------------------------------------------------ *)
(* Text helpers                                                        *)
(* ------------------------------------------------------------------ *)
Whitespace == {" ", "\n", "\t", "\r"}

RECURSIVE LStrip(_)
LStrip(s) ==
    IF s # <<>> /\ Head(s) \in Whitespace THEN LStrip(Tail(s)) ELSE s

RECURSIVE RStrip(_)
RStrip(s) ==
    IF s # <<>> /\ s[Len(s)] \in Whitespace
    THEN RStrip(SubSeq(s, 1, Len(s) - 1)) ELSE s

\* str.strip()
Strip(s) == RStrip(LStrip(s))

\* the literal lit occurs in s starting at 0-based offset p
LitAt(s, p, lit) ==
    /\ p + Len(lit) <= Len(s)
    /\ \A i \in 1..Len(lit) : s[p + i] = lit[i]

\* offsets reachable from the offsets in P by consuming the literal
After(s, P, lit) == {p + Len(lit) : p \in {q \in P : LitAt(s, q, lit)}}

\* offsets reachable by consuming one of the alternatives
AfterAny(s, P, lits) == UNION {After(s, P, l) : l \in lits}

L_http == <<"h","t","t","p">>
L_s == <<"s">>
L_css == <<":","/","/">>
L_www == <<"w","w","w",".">>
L_youtube == <<"y","o","u","t","u","b","e">>
L_youtu == <<"y","o","u","t","u">>
L_nocookie == <<"y","o","u","t","u","b","e","-","n","o","c","o","o","k","i","e">>
L_dot == <<".">>
L_com == <<"c","o","m">>
L_be == <<"b","e">>
L_slash == <<"/">>
L_watch == <<"w","a","t","c","h","?","v","=">>
L_embed == <<"e","m","b","e","d","/">>
L_v == <<"v","/">>
L_qv == <<"?","v","=">>

IdLength == 11
IdExcluded == {"&", "=", "%", "?"}

\* (https?://)?
AfterScheme(s) ==
    LET h  == After(s, {0}, L_http)
        hs == h \cup After(s, h, L_s)
    IN  {0} \cup After(s, hs, L_css)

\* (www\.)?
AfterWww(s) == LET P == AfterScheme(s) IN P \cup After(s, P, L_www)

\* (youtube|youtu|youtube-nocookie)\.(com|be)/
AfterHost(s) ==
    LET n == AfterAny(s, AfterWww(s), {L_youtube, L_youtu, L_nocookie})
        d == After(s, n, L_dot)
        t == AfterAny(s, d, {L_com, L_be})
    IN  After(s, t, L_slash)

\* .+\?v=  : one or more characters other than newline, then "?v="
AfterDotPlusQv(s, P) ==
    {q + Len(L_qv) : q \in {r \in 0..Len(s) :
        /\ LitAt(s, r, L_qv)
        /\ \E p \in P : /\ p < r
                        /\ \A i \in (p + 1)..r : s[i] # "\n"}}

\* (watch\?v=|embed/|v/|.+\?v=)?
AfterPath(s) ==
    LET P == AfterHost(s)
    IN  P \cup AfterAny(s, P, {L_watch, L_embed, L_v}) \cup AfterDotPlusQv(s, P)

\* ([^&=%\?]{11})
IdAt(s, p) ==
    /\ p + IdLength <= Len(s)
    /\ \A i \in 1..IdLength : s[p + i] \notin IdExcluded

\* is_valid_youtube_url: youtube_regex.match(url) is not None
is_valid_youtube_url(url) == \E p \in AfterPath(url) : IdAt(url, p)

(* ------------------------------------------------------------------ *)
(* Request inputs                                                      *)
(* ------------------------------------------------------------------ *)
U_empty == <<>>
U_blank == <<" "," ">>
U_notaurl == <<"n","o","t"," ","a"," ","u","r","l">>
U_watch == <<"h","t","t","p","s",":","/","/","w","w","w",".","y","o","u","t","u","b","e",".","c","o","m","/","w","a","t","c","h","?","v","=","d","Q","w","4","w","9","W","g","X","c","Q">>
U_padded == <<" ","h","t","t","p","s",":","/","/","w","w","w",".","y","o","u","t","u","b","e",".","c","o","m","/","w","a","t","c","h","?","v","=","d","Q","w","4","w","9","W","g","X","c","Q","\n">>
U_short == <<"y","o","u","t","u",".","b","e","/","d","Q","w","4","w","9","W","g","X","c","Q">>
U_shortid == <<"h","t","t","p","s",":","/","/","w","w","w",".","y","o","u","t","u","b","e",".","c","o","m","/","w","a","t","c","h","?","v","=","s","h","o","r","t">>
U_embed == <<"h","t","t","p",":","/","/","y","o","u","t","u","b","e",".","c","o","m","/","e","m","b","e","d","/","d","Q","w","4","w","9","W","g","X","c","Q","&","t","=","1">>
U_vimeo == <<"h","t","t","p","s",":","/","/","v","i","m","e","o",".","c","o","m","/","d","Q","w","4","w","9","W","g","X","c","Q">>
U_playlist == <<"h","t","t","p","s",":","/","/","w","w","w",".","y","o","u","t","u","b","e",".","c","o","m","/","p","l","a","y","l","i","s","t","?","v","=","d","Q","w","4","w","9","W","g","X","c","Q">>
U_channel == <<"h","t","t","p","s",":","/","/","w","w","w",".","y","o","u","t","u","b","e",".","c","o","m","/","c","h","a","n","n","e","l","/","a","b","c">>

\* values submitted in the form field 'url'
Urls ==
    {U_empty, U_blank, U_notaurl, U_watch, U_padded, U_short, U_shortid,
     U_embed, U_vimeo, U_playlist, U_channel}

\* values submitted in the form field 'format_id'; <<>> is an absent field
Choices == {<<>>, <<"">>, <<"best">>, <<"bestaudio">>, <<"22">>, <<"bestaudio ">>}

(* ------------------------------------------------------------------ *)
(* Raw format descriptors reported by the engine.  An optional value    *)
(* (a missing key or None) is <<>>, a present one is <<v>>.             *)
(* ------------------------------------------------------------------ *)
LadderIds ==
    <<"160", "133", "134", "135", "136", "137", "298", "299",
      "264", "271", "313", "401", "571", "702", "703", "704">>

LadderHeight(i) == 72 * i

LadderFmt(i) ==
    [format_id |-> LadderIds[i], vcodec |-> <<"avc1">>,
     height |-> <<LadderHeight(i)>>, ext |-> <<"mp4">>,
     filesize |-> <<1000 * i>>, fps |-> <<30>>]

\* a storyboard: no video codec, but a height equal to a ladder height
Fmt_storyboard ==
    [format_id |-> "sb0", vcodec |-> <<"none">>, height |-> <<LadderHeight(2)>>,
     ext |-> <<"mhtml">>, filesize |-> <<>>, fps |-> <<>>]
\* an audio stream: no video codec, no height
Fmt_audio ==
    [format_id |-> "140", vcodec |-> <<"none">>, height |-> <<>>,
     ext |-> <<"m4a">>, filesize |-> <<500>>, fps |-> <<>>]
\* second encodings of ladder heights, under other identifiers
Fmt_dupLow ==
    [format_id |-> "278", vcodec |-> <<"vp9">>, height |-> <<LadderHeight(1)>>,
     ext |-> <<"webm">>, filesize |-> <<700>>, fps |-> <<30>>]
Fmt_dupMid ==
    [format_id |-> "243", vcodec |-> <<"vp9">>, height |-> <<LadderHeight(3)>>,
     ext |-> <<"webm">>, filesize |-> <<>>, fps |-> <<60>>]
\* a height of 0
Fmt_zero ==
    [format_id |-> "z0", vcodec |-> <<"avc1">>, height |-> <<0>>,
     ext |-> <<"mp4">>, filesize |-> <<>>, fps |-> <<>>]
\* no 'vcodec' and no 'ext' key, a height above the whole ladder
Fmt_bare ==
    [format_id |-> "hls-4320", vcodec |-> <<>>, height |-> <<4320>>,
     ext |-> <<>>, filesize |-> <<>>, fps |-> <<>>]

ExtraFmts == {Fmt_storyboard, Fmt_audio, Fmt_dupLow, Fmt_dupMid, Fmt_zero, Fmt_bare}

SeqsUpTo(S, n) == UNION {[1..k -> S] : k \in 0..n}

Ascending(k) == [i \in 1..k |-> LadderFmt(i)]
Descending(k) == [i \in 1..k |-> LadderFmt(k + 1 - i)]

\* the 'formats' lists the engine may report
RawFormatLists ==
    {pre \o mid \o suf :
        pre \in SeqsUpTo(ExtraFmts, MaxPrefix),
        mid \in {Ascending(k) : k \in 0..MaxLadder}
                    \cup {Descending(k) : k \in 0..MaxLadder},
        suf \in SeqsUpTo(ExtraFmts, MaxSuffix)}

\* the info dictionaries extract_info may return
Infos ==
    {[hasFormats |-> TRUE, formats |-> f] : f \in RawFormatLists}
        \cup {[hasFormats |-> FALSE, formats |-> <<>>]}

(* ------------------------------------------------------------------ *)
(* Format catalog construction (get_video_info)                        *)
(* ------------------------------------------------------------------ *)
DigitChars == <<"0", "1", "2", "3", "4", "5", "6", "7", "8", "9">>

\* str() of a non-negative integer
RECURSIVE Str(_)
Str(n) ==
    IF n < 10 THEN <<DigitChars[n + 1]>>
    ELSE Str(n \div 10) \o <<DigitChars[(n % 10) + 1]>>

\* f"{fmt['height']}p"
Quality(height) == Str(height) \o <<"p">>

\* x['quality'].replace('p', '')
ReplaceP(s) == SelectSeq(s, LAMBDA c : c # "p")

DigitValue(c) == CHOOSE d \in 0..9 : DigitChars[d + 1] = c

\* int() of a string of decimal digits
RECURSIVE IntOf(_)
IntOf(s) ==
    IF s = <<>> THEN 0
    ELSE 10 * IntOf(SubSeq(s, 1, Len(s) - 1)) + DigitValue(s[Len(s)])

\* the sort key: int(x['quality'].replace('p', ''))
SortKey(x) == IntOf(ReplaceP(x.quality))

\* fmt.get('vcodec') != 'none' and fmt.get('height')
IsVideoFmt(fmt) ==
    /\ fmt.vcodec # <<"none">>
    /\ fmt.height # <<>>
    /\ fmt.height[1] # 0

\* the dictionary appended for a raw descriptor
VideoEntry(fmt) ==
    [format_id |-> fmt.format_id,
     quality   |-> Quality(fmt.height[1]),
     ext       |-> IF fmt.ext = <<>> THEN "mp4" ELSE fmt.ext[1],
     filesize  |-> fmt.filesize,
     fps       |-> fmt.fps]

\* AddFormat with a repeated label replacing the entry kept so far
AddFormatKeepLast(acc, fmt) ==
    IF ~IsVideoFmt(fmt) THEN acc
    ELSE IF Quality(fmt.height[1]) \notin acc.seen_qualities
    THEN [formats |-> Append(acc.formats, VideoEntry(fmt)),
          seen_qualities |-> acc.seen_qualities \cup {Quality(fmt.height[1])}]
    ELSE [formats |-> [i \in 1..Len(acc.formats) |->
                        IF acc.formats[i].quality = Quality(fmt.height[1])
                        THEN VideoEntry(fmt) ELSE acc.formats[i]],
          seen_qualities |-> acc.seen_qualities]

\* one iteration of the loop over info['formats']; acc holds formats and
\* seen_qualities
AddFormat(acc, fmt) ==
    IF IsVideoFmt(fmt) /\ Quality(fmt.height[1]) \notin acc.seen_qualities
    THEN [formats |-> Append(acc.formats, VideoEntry(fmt)),
          seen_qualities |-> acc.seen_qualities \cup {Quality(fmt.height[1])}]
    ELSE acc

RECURSIVE CollectFormats(_, _)
CollectFormats(raw, acc) ==
    IF raw = <<>> THEN acc.formats
    ELSE CollectFormats(Tail(raw), AddFormat(acc, Head(raw)))

\* InsertSorted without reverse=True
InsertSortedAscending(sorted, x) ==
    LET n == Cardinality({i \in 1..Len(sorted) : SortKey(sorted[i]) <= SortKey(x)})
    IN  SubSeq(sorted, 1, n) \o <<x>> \o SubSeq(sorted, n + 1, Len(sorted))

\* position of x in a list kept in sort order: behind every element that
\* does not sort after it (the sort is stable)
InsertSorted(sorted, x) ==
    LET n == Cardinality({i \in 1..Len(sorted) : SortKey(sorted[i]) >= SortKey(x)})
    IN  SubSeq(sorted, 1, n) \o <<x>> \o SubSeq(sorted, n + 1, Len(sorted))

\* formats.sort(key=..., reverse=True)
RECURSIVE SortFormats(_)
SortFormats(formats) ==
    IF formats = <<>> THEN <<>>
    ELSE InsertSorted(SortFormats(SubSeq(formats, 1, Len(formats) - 1)),
                      formats[Len(formats)])

AudioLabel == <<"A","u","d","i","o"," ","O","n","l","y"," ","(","M","P","3",")">>

AudioEntry ==
    [format_id |-> "bestaudio", quality |-> AudioLabel, ext |-> "mp3",
     filesize |-> <<>>, fps |-> <<>>]

FormatLimit == 10

\* formats[:10]
Truncate(formats) ==
    SubSeq(formats, 1, IF Len(formats) < FormatLimit THEN Len(formats) ELSE FormatLimit)

\* the value of video_info['formats'] for an info dictionary
BuildFormats(info) ==
    LET collected ==
            IF info.hasFormats
            THEN CollectFormats(info.formats, [formats |-> <<>>, seen_qualities |-> {}])
            ELSE <<>>
    IN  Truncate(Append(SortFormats(collected), AudioEntry))

(* ------------------------------------------------------------------ *)
(* Responses                                                           *)
(* ------------------------------------------------------------------ *)
MsgEnterUrl == "Please enter a YouTube URL"
MsgEnterValidUrl == "Please enter a valid YouTube URL"
MsgFetchFailed == "Failed to fetch video information. Please check the URL and try again."
MsgUnexpected == "An unexpected error occurred. Please try again."
FlashInvalidUrl == "Invalid YouTube URL"
FlashNoFile == "Download failed. No file was created."
FlashDownloadFailed == "Download failed. Please try again with a different quality option."
FlashUnexpected == "An unexpected error occurred during download."

\* jsonify({'error': msg}), status
JsonError(msg, status) ==
    [kind |-> "json", status |-> status, error |-> msg, flash |-> "",
     formats |-> <<>>, path |-> <<>>, download_name |-> ""]

\* jsonify(video_info)
JsonInfo(formats) ==
    [kind |-> "json", status |-> 200, error |-> "", flash |-> "",
     formats |-> formats, path |-> <<>>, download_name |-> ""]

\* flash(msg, 'error'); redirect(url_for('index'))
FlashRedirect(msg) ==
    [kind |-> "redirect", status |-> 302, error |-> "", flash |-> msg,
     formats |-> <<>>, path |-> <<>>, download_name |-> ""]

\* send_file(file_path, as_attachment=True, download_name=name)
FileResponse(dir, name) ==
    [kind |-> "file", status |-> 200, error |-> "", flash |-> "",
     formats |-> <<>>, path |-> <<dir, name>>, download_name |-> name]

\* request.form.get(key, default)
FormGet(field, default) == IF field = <<>> THEN default ELSE field[1]

\* the two URL checks of get_video_info: <<>> when the URL is accepted
InfoUrlError(u) ==
    IF u = <<>> THEN <<MsgEnterUrl>>
    ELSE IF ~is_valid_youtube_url(u) THEN <<MsgEnterValidUrl>>
    ELSE <<>>

\* DownloadUrlRejected without the call of is_valid_youtube_url
DownloadUrlRejectedEmptyOnly(u) == u = <<>>

\* the URL check of download_video
DownloadUrlRejected(u) == u = <<>> \/ ~is_valid_youtube_url(u)

\* InfoErrorResponse with the general except clause taking every exception
InfoErrorResponseGeneral(kind) == JsonError(MsgUnexpected, 500)

\* the except clauses of get_video_info
InfoErrorResponse(kind) ==
    IF kind = "DownloadError" THEN JsonError(MsgFetchFailed, 400)
    ELSE JsonError(MsgUnexpected, 500)

\* the except clauses of download_video
DownloadErrorFlash(kind) ==
    IF kind = "DownloadError" THEN FlashDownloadFailed ELSE FlashUnexpected

AudioPostprocessor ==
    [key |-> "FFmpegExtractAudio", preferredcodec |-> "mp3",
     preferredquality |-> "192"]

\* Directive without the audio branch
DirectiveVerbatim(fid, dir) ==
    [format |-> fid, outtmpl |-> <<dir, "%(title)s.%(ext)s">>,
     postprocessors |-> <<>>,
     cookies |-> "/etc/secrets/cookies.txt"]

\* ydl_opts of download_video; postprocessors <<>> stands for no such key
Directive(fid, dir) ==
    IF fid = "bestaudio"
    THEN [format |-> "bestaudio/best", outtmpl |-> <<dir, "%(title)s.%(ext)s">>,
          postprocessors |-> <<AudioPostprocessor>>,
          cookies |-> "/etc/secrets/cookies.txt"]
    ELSE [format |-> fid, outtmpl |-> <<dir, "%(title)s.%(ext)s">>,
          postprocessors |-> <<>>,
          cookies |-> "/etc/secrets/cookies.txt"]

InfoOpts ==
    [quiet |-> TRUE, no_warnings |-> TRUE, extract_flat |-> FALSE,
     cookies |-> "cookies.txt"]

\* exceptions the engine may raise: DownloadError, or any other Exception
Raisable == {"DownloadError", "Exception"}

\* files the engine may leave in the download directory
FileNames == {"Title.mp4", "Title.mp3", "Title.webp"}
FileSets == {W \in SUBSET FileNames : Cardinality(W) <= MaxFiles}

\* the orders in which os.listdir may report a set of files
Listings(W) ==
    {l \in [1..Cardinality(W) -> W] : \A i, j \in DOMAIN l : i # j => l[i] # l[j]}

TempDirName == "tmpdir"

(* ------------------------------------------------------------------ *)
(* State                                                               *)
(* ------------------------------------------------------------------ *)
VARIABLES
    handler,          \* the view function serving the request
    pc,               \* its position
    form,             \* request.form
    url,              \* local url
    format_id,        \* local format_id
    temp_dir,         \* local temp_dir, <<>> before mkdtemp
    dir_exists,       \* the directory temp_dir is on disk
    dir_files,        \* the files in it
    ydl_opts,         \* local ydl_opts, <<>> before it is built
    engine_calls,     \* calls made on YoutubeDL, in order
    info,             \* local info, <<>> before extract_info returns
    raised,           \* the exception caught, "" if none
    downloaded_files, \* local downloaded_files
    response,         \* the value returned by the view function, <<>> before
    transferred       \* chunks of the artifact streamed to the client

vars ==
    <<handler, pc, form, url, format_id, temp_dir, dir_exists, dir_files,
      ydl_opts, engine_calls, info, raised, downloaded_files, response,
      transferred>>

Init ==
    /\ handler = "none"
    /\ pc = "idle"
    /\ form = [url |-> <<>>, format_id |-> <<>>]
    /\ url = <<>>
    /\ format_id = ""
    /\ temp_dir = <<>>
    /\ dir_exists = FALSE
    /\ dir_files = {}
    /\ ydl_opts = <<>>
    /\ engine_calls = <<>>
    /\ info = <<>>
    /\ raised = ""
    /\ downloaded_files = <<>>
    /\ response = <<>>
    /\ transferred = 0

(* ------------------------------------------------------------------ *)
(* get_video_info                                                      *)
(* ------------------------------------------------------------------ *)
\* POST /get_video_info arrives; url = request.form.get('url', '').strip()
InfoRequest ==
    /\ pc = "idle"
    /\ \E u \in Urls :
        /\ form' = [url |-> u, format_id |-> <<>>]
        /\ url' = Strip(u)
    /\ handler' = "get_video_info"
    /\ pc' = "validate"
    /\ UNCHANGED <<format_id, temp_dir, dir_exists, dir_files, ydl_opts,
                   engine_calls, info, raised, downloaded_files, response,
                   transferred>>

InfoValidate ==
    /\ handler = "get_video_info" /\ pc = "validate"
    /\ IF InfoUrlError(url) # <<>>
       THEN /\ response' = <<JsonError(InfoUrlError(url)[1], 400)>>
            /\ pc' = "done"
            /\ UNCHANGED ydl_opts
       ELSE /\ ydl_opts' = <<InfoOpts>>
            /\ pc' = "extract"
            /\ UNCHANGED response
    /\ UNCHANGED <<handler, form, url, format_id, temp_dir, dir_exists,
                   dir_files, engine_calls, info, raised, downloaded_files,
                   transferred>>

\* info = ydl.extract_info(url, download=False)
InfoExtract ==
    /\ handler = "get_video_info" /\ pc = "extract"
    /\ engine_calls' = Append(engine_calls,
            [op |-> "extract_info", url |-> url, opts |-> ydl_opts[1]])
    /\ \/ \E i \in Infos :
            /\ info' = <<i>>
            /\ pc' = "build"
            /\ UNCHANGED raised
       \/ \E e \in Raisable :
            /\ raised' = e
            /\ pc' = "except"
            /\ UNCHANGED info
    /\ UNCHANGED <<handler, form, url, format_id, temp_dir, dir_exists,
                   dir_files, ydl_opts, downloaded_files, response,
                   transferred>>

\* the catalog is built and jsonify(video_info) returned
InfoBuild ==
    /\ handler = "get_video_info" /\ pc = "build"
    /\ response' = <<JsonInfo(BuildFormats(info[1]))>>
    /\ pc' = "done"
    /\ UNCHANGED <<handler, form, url, format_id, temp_dir, dir_exists,
                   dir_files, ydl_opts, engine_calls, info, raised,
                   downloaded_files, transferred>>

InfoExcept ==
    /\ handler = "get_video_info" /\ pc = "except"
    /\ response' = <<InfoErrorResponse(raised)>>
    /\ pc' = "done"
    /\ UNCHANGED <<handler, form, url, format_id, temp_dir, dir_exists,
                   dir_files, ydl_opts, engine_calls, info, raised,
                   downloaded_files, transferred>>

(* ------------------------------------------------------------------ *)
(* download_video                                                      *)
(* ------------------------------------------------------------------ *)
\* POST /download arrives; url and format_id are read from the form
DownloadRequest ==
    /\ pc = "idle"
    /\ \E u \in Urls, c \in Choices :
        /\ form' = [url |-> u, format_id |-> c]
        /\ url' = Strip(u)
        /\ format_id' = FormGet(c, "best")
    /\ handler' = "download_video"
    /\ pc' = "validate"
    /\ UNCHANGED <<temp_dir, dir_exists, dir_files, ydl_opts, engine_calls,
                   info, raised, downloaded_files, response, transferred>>

\* the URL check, then temp_dir = tempfile.mkdtemp()
DownloadValidate ==
    /\ handler = "download_video" /\ pc = "validate"
    /\ IF DownloadUrlRejected(url)
       THEN /\ response' = <<FlashRedirect(FlashInvalidUrl)>>
            /\ pc' = "done"
            /\ UNCHANGED <<temp_dir, dir_exists, dir_files>>
       ELSE /\ temp_dir' = <<TempDirName>>
            /\ dir_exists' = TRUE
            /\ dir_files' = {}
            /\ pc' = "opts"
            /\ UNCHANGED response
    /\ UNCHANGED <<handler, form, url, format_id, ydl_opts, engine_calls,
                   info, raised, downloaded_files, transferred>>

DownloadOpts ==
    /\ handler = "download_video" /\ pc = "opts"
    /\ ydl_opts' = <<Directive(format_id, temp_dir[1])>>
    /\ pc' = "extract"
    /\ UNCHANGED <<handler, form, url, format_id, temp_dir, dir_exists,
                   dir_files, engine_calls, info, raised, downloaded_files,
                   response, transferred>>

\* info = ydl.extract_info(url, download=False)
DownloadExtract ==
    /\ handler = "download_video" /\ pc = "extract"
    /\ engine_calls' = Append(engine_calls,
            [op |-> "extract_info", url |-> url, opts |-> ydl_opts[1]])
    /\ \/ /\ info' = <<[hasFormats |-> FALSE, formats |-> <<>>]>>
          /\ pc' = "download"
          /\ UNCHANGED raised
       \/ \E e \in Raisable :
            /\ raised' = e
            /\ pc' = "except"
            /\ UNCHANGED info
    /\ UNCHANGED <<handler, form, url, format_id, temp_dir, dir_exists,
                   dir_files, ydl_opts, downloaded_files, response,
                   transferred>>

\* ydl.download([url]): the engine writes into temp_dir, and may raise
DownloadRun ==
    /\ handler = "download_video" /\ pc = "download"
    /\ engine_calls' = Append(engine_calls,
            [op |-> "download", url |-> url, opts |-> ydl_opts[1]])
    /\ \E W \in FileSets : dir_files' = W
    /\ \/ /\ pc' = "list"
          /\ UNCHANGED raised
       \/ \E e \in Raisable :
            /\ raised' = e
            /\ pc' = "except"
    /\ UNCHANGED <<handler, form, url, format_id, temp_dir, dir_exists,
                   ydl_opts, info, downloaded_files, response, transferred>>

\* NoFileCreated without the emptiness check: downloaded_files[0] raises, and
\* the general except clause answers
NoFileCreatedUnchecked ==
    /\ response' = <<FlashRedirect(FlashUnexpected)>>
    /\ pc' = "done"
    /\ UNCHANGED <<dir_exists, dir_files, transferred>>

\* the branch taken when os.listdir reports no file
NoFileCreated ==
    /\ response' = <<FlashRedirect(FlashNoFile)>>
    /\ pc' = "done"
    /\ UNCHANGED <<dir_exists, dir_files, transferred>>

\* SendFile with the directory removed when the view function returns
SendFileThenRemove(listing) ==
    /\ response' = <<FileResponse(temp_dir[1], listing[1])>>
    /\ pc' = "streaming"
    /\ transferred' = 0
    /\ dir_exists' = FALSE
    /\ dir_files' = {}

\* return send_file(file_path, as_attachment=True, download_name=...)
SendFile(listing) ==
    /\ response' = <<FileResponse(temp_dir[1], listing[1])>>
    /\ pc' = "streaming"
    /\ transferred' = 0
    /\ UNCHANGED <<dir_exists, dir_files>>

\* downloaded_files = os.listdir(temp_dir) and what follows it
DownloadList ==
    /\ handler = "download_video" /\ pc = "list"
    /\ \E listing \in Listings(dir_files) :
        /\ downloaded_files' = listing
        /\ IF listing = <<>> THEN NoFileCreated ELSE SendFile(listing)
    /\ UNCHANGED <<handler, form, url, format_id, temp_dir, ydl_opts,
                   engine_calls, info, raised>>

DownloadExcept ==
    /\ handler = "download_video" /\ pc = "except"
    /\ response' = <<FlashRedirect(DownloadErrorFlash(raised))>>
    /\ pc' = "done"
    /\ UNCHANGED <<handler, form, url, format_id, temp_dir, dir_exists,
                   dir_files, ydl_opts, engine_calls, info, raised,
                   downloaded_files, transferred>>

\* the response layer reads the next chunk of the file and sends it
StreamChunk ==
    /\ pc = "streaming"
    /\ transferred < MaxChunks
    /\ transferred' = transferred + 1
    /\ UNCHANGED <<handler, pc, form, url, format_id, temp_dir, dir_exists,
                   dir_files, ydl_opts, engine_calls, info, raised,
                   downloaded_files, response>>

\* the last chunk has been sent; the request is over
StreamEnd ==
    /\ pc = "streaming"
    /\ transferred = MaxChunks
    /\ pc' = "done"
    /\ UNCHANGED <<handler, form, url, format_id, temp_dir, dir_exists,
                   dir_files, ydl_opts, engine_calls, info, raised,
                   downloaded_files, response, transferred>>

Next ==
    \/ InfoRequest
    \/ InfoValidate
    \/ InfoExtract
    \/ InfoBuild
    \/ InfoExcept
    \/ DownloadRequest
    \/ DownloadValidate
    \/ DownloadOpts
    \/ DownloadExtract
    \/ DownloadRun
    \/ DownloadList
    \/ DownloadExcept
    \/ StreamChunk
    \/ StreamEnd

Spec == Init /\ [][Next]_vars


(* ------------------------------------------------------------------ *)
(* Properties                                                          *)
(* ------------------------------------------------------------------ *)
InfoReturned ==
    /\ handler = "get_video_info" /\ pc = "done"
    /\ response # <<>> /\ response[1].status = 200

IsAudioEntry(e) == e.format_id = "bestaudio" /\ e.quality = AudioLabel

\* the indices of the video entries of a catalog
VideoIndices(f) == {i \in 1..Len(f) : f[i].quality # AudioLabel}

\* the raw descriptors that carry a codec other than 'none' and a height
VideoDescriptors(raw) ==
    {i \in 1..Len(raw) :
        /\ raw[i].vcodec # <<"none">>
        /\ raw[i].height # <<>>
        /\ raw[i].height[1] # 0}

UrlInvalid == url = <<>> \/ ~is_valid_youtube_url(url)

\* C1: once a download request that created its directory has ended, on any
\* exit path, the directory has been removed.
C1_WorkspaceRemoved ==
    (handler = "download_video" /\ pc = "done" /\ temp_dir # <<>>) => ~dir_exists

\* C2: the catalog returned by get_video_info holds exactly one
\* 'Audio Only (MP3)' entry with format_id 'bestaudio', as its last element.
C2_AudioEntryLast ==
    InfoReturned =>
        LET f == response[1].formats
        IN  /\ f # <<>>
            /\ IsAudioEntry(f[Len(f)])
            /\ Cardinality({i \in 1..Len(f) : IsAudioEntry(f[i])}) = 1

\* C3: a request whose URL is empty or fails is_valid_youtube_url never calls
\* the engine and ends with the invalid-URL response of its handler.
C3_InvalidUrlNeverReachesEngine ==
    (handler # "none" /\ UrlInvalid) =>
        /\ engine_calls = <<>>
        /\ pc \in {"validate", "done"}
        /\ pc = "done" =>
            /\ Len(response) = 1
            /\ handler = "get_video_info" =>
                /\ response[1].kind = "json"
                /\ response[1].status = 400
                /\ response[1].error =
                       IF url = <<>> THEN "Please enter a YouTube URL"
                       ELSE "Please enter a valid YouTube URL"
            /\ handler = "download_video" =>
                /\ response[1].kind = "redirect"
                /\ response[1].flash = "Invalid YouTube URL"

C3_Witness ==
    /\ handler = "download_video" /\ pc = "done"
    /\ url # <<>> /\ ~is_valid_youtube_url(url)
    /\ response # <<>> /\ response[1].flash = "Invalid YouTube URL"

\* C4: when the form has no format_id, or an empty one, the directive built by
\* download_video asks for format 'best'.
C4_EmptyChoiceDefaultsToBest ==
    (handler = "download_video" /\ ydl_opts # <<>>
        /\ form.format_id \in {<<>>, <<"">>})
    => ydl_opts[1].format = "best"

\* C5: the choice 'bestaudio' gives the audio-extraction directive (best audio,
\* one MP3 post-processor at bitrate 192); any other non-empty choice gives a
\* directive with that choice as its format and no post-processor; and this
\* directive is the one every engine call of the request is made with.
C5_SentinelSelectsAudio ==
    (handler = "download_video" /\ ydl_opts # <<>>) =>
        LET c == form.format_id
            d == ydl_opts[1]
        IN  /\ c = <<"bestaudio">> =>
                /\ d.format = "bestaudio/best"
                /\ d.postprocessors =
                       <<[key |-> "FFmpegExtractAudio", preferredcodec |-> "mp3",
                          preferredquality |-> "192"]>>
            /\ (c # <<>> /\ c # <<"">> /\ c # <<"bestaudio">>) =>
                /\ d.format = c[1]
                /\ d.postprocessors = <<>>
            /\ \A k \in 1..Len(engine_calls) : engine_calls[k].opts = d

C5_Witness ==
    /\ handler = "download_video"
    /\ form.format_id = <<"bestaudio">>
    /\ Len(engine_calls) = 2
    /\ engine_calls[2].op = "download"
    /\ engine_calls[2].opts.postprocessors # <<>>

\* C6 as stated: no two video entries share a quality label, and each video
\* entry carries the format_id of the first raw descriptor with its height.
C6_FirstDescriptorWithHeight ==
    InfoReturned =>
        LET f   == response[1].formats
            raw == info[1].formats
        IN  \A i \in VideoIndices(f) :
                /\ \A j \in VideoIndices(f) : f[j].quality = f[i].quality => j = i
                /\ \E k \in 1..Len(raw) :
                    /\ raw[k].height # <<>>
                    /\ Quality(raw[k].height[1]) = f[i].quality
                    /\ \A m \in 1..(k - 1) :
                           raw[m].height = <<>> \/ raw[m].height[1] # raw[k].height[1]
                    /\ f[i].format_id = raw[k].format_id

\* C6 amended: no two video entries share a quality label, and each video entry
\* carries the format_id of the first raw descriptor with its height among the
\* descriptors whose vcodec is not 'none'.
C6_FirstVideoDescriptorKept ==
    InfoReturned =>
        LET f   == response[1].formats
            raw == info[1].formats
            V   == VideoDescriptors(raw)
        IN  \A i \in VideoIndices(f) :
                /\ \A j \in VideoIndices(f) : f[j].quality = f[i].quality => j = i
                /\ \E k \in V :
                    /\ Quality(raw[k].height[1]) = f[i].quality
                    /\ \A m \in V : m < k => raw[m].height[1] # raw[k].height[1]
                    /\ f[i].format_id = raw[k].format_id

C6_Witness ==
    /\ InfoReturned
    /\ LET f   == response[1].formats
           raw == info[1].formats
           V   == VideoDescriptors(raw)
       IN  \E k, m \in V :
            /\ k < m
            /\ raw[k].height = raw[m].height
            /\ raw[k].format_id # raw[m].format_id
            /\ \E i \in VideoIndices(f) : f[i].format_id = raw[k].format_id

\* the distinct heights of the video descriptors of a raw list
VideoHeights(raw) == {raw[k].height[1] : k \in VideoDescriptors(raw)}

\* the n greatest members of a set of integers
Greatest(S, n) == {h \in S : Cardinality({g \in S : g > h}) < n}

\* C7: the video entries of the returned catalog are in strictly descending
\* order of height, there are at most 10 of them, and when more than 10
\* distinct heights are available they are the 10 greatest.
C7_VideoEntriesDescendingTopTen ==
    InfoReturned =>
        LET f   == response[1].formats
            raw == info[1].formats
            H   == VideoHeights(raw)
            VI  == VideoIndices(f)
        IN  /\ Cardinality(VI) <= 10
            /\ \A i, j \in VI : i < j => IntOf(ReplaceP(f[i].quality)) > IntOf(ReplaceP(f[j].quality))
            /\ \A i \in VI : \A j \in 1..Len(f) : j < i => j \in VI
            /\ Cardinality(H) > 10 =>
                {f[i].quality : i \in VI} = {Str(h) \o <<"p">> : h \in Greatest(H, 10)}

C7_Witness ==
    /\ InfoReturned
    /\ Cardinality(VideoHeights(info[1].formats)) > 10
    /\ Cardinality(VideoIndices(response[1].formats)) = 10
    /\ info[1].formats[1].height # <<>>
    /\ info[1].formats[1].height[1] < info[1].formats[Len(info[1].formats)].height[1]

\* C8: a metadata request ends with exactly one response: 400 with the message
\* of the failed URL check, 400 with the could-not-fetch message after a
\* DownloadError, 500 with the unexpected-error message after any other
\* exception, and the metadata otherwise; before it ends there is no response.
C8_InfoOutcomeClassified ==
    handler = "get_video_info" =>
        /\ pc # "done" => response = <<>>
        /\ pc = "done" =>
            /\ Len(response) = 1
            /\ response[1].kind = "json"
            /\ <<response[1].status, response[1].error>> =
                IF url = <<>> THEN <<400, "Please enter a YouTube URL">>
                ELSE IF ~is_valid_youtube_url(url)
                    THEN <<400, "Please enter a valid YouTube URL">>
                ELSE IF raised = "DownloadError"
                    THEN <<400, "Failed to fetch video information. Please check the URL and try again.">>
                ELSE IF raised # ""
                    THEN <<500, "An unexpected error occurred. Please try again.">>
                ELSE <<200, "">>
            /\ response[1].status = 200 => info # <<>>

C8_Witness ==
    /\ handler = "get_video_info" /\ pc = "done"
    /\ raised = "DownloadError"
    /\ response # <<>> /\ response[1].status = 400
    /\ Len(engine_calls) = 1

\* C9: when the engine's download returned without raising and the directory
\* listing is empty, the request ends with the no-file notice, which is neither
\* the DownloadError notice nor the unexpected-error notice, and nothing is
\* sent.
C9_NoArtifactNotice ==
    (/\ handler = "download_video" /\ pc = "done"
     /\ Len(engine_calls) = 2 /\ raised = ""
     /\ dir_files = {})
    =>  /\ Len(response) = 1
        /\ response[1].kind = "redirect"
        /\ response[1].flash = "Download failed. No file was created."
        /\ response[1].flash # DownloadErrorFlash("DownloadError")
        /\ response[1].flash # DownloadErrorFlash("Exception")
        /\ response[1].path = <<>>
        /\ transferred = 0

C9_Witness ==
    /\ handler = "download_video" /\ pc = "done"
    /\ Len(engine_calls) = 2 /\ engine_calls[2].op = "download"
    /\ raised = "" /\ dir_files = {} /\ downloaded_files = <<>>
    /\ response # <<>> /\ response[1].kind = "redirect"

\* C10: from the call of send_file until the last chunk has been streamed, the
\* directory exists and holds the file sent, which is the first entry of the
\* listing and whose name is the download name.
C10_ArtifactPresentWhileStreaming ==
    pc = "streaming" =>
        /\ Len(response) = 1
        /\ response[1].kind = "file"
        /\ downloaded_files # <<>>
        /\ response[1].path = <<temp_dir[1], downloaded_files[1]>>
        /\ response[1].download_name = downloaded_files[1]
        /\ dir_exists
        /\ downloaded_files[1] \in dir_files

C10_Witness ==
    /\ pc = "streaming"
    /\ transferred = MaxChunks
    /\ Len(downloaded_files) = 2
    /\ response # <<>> /\ response[1].download_name = downloaded_files[1]
====
